---- MODULE Spec2Model ----
(***************************************************************************)
(* Model of scripts/dba_to_ngdac_profile_nc.py: main(args) walks the list  *)
(* of dba files, segments each into profile intervals and writes one       *)
(* NetCDF file per interval into a staging directory before moving it to   *)
(* output_path.  The interpreter is Python 3 (IOError is OSError).         *)
(***************************************************************************)
EXTENDS Integers, Sequences, FiniteSets, TLC

\* ---------------------------------------------------------------- bounds
MaxFiles == 2
MaxProfiles == 2
MaxTime == 2
MaxStartId == 2
\* staging files one run creates
MaxStaged == 3
TwiceMaxFiles == 1

\* ------------------------------------------------------------- constants
\* numpy's nan, kept apart from every timestamp of Times
NaN == 0 - 1
\* permission bits: mkstemp creates 0600, line 229 sets 0o755, line 248 0o664
ModeTmp == 600
ModePlaced == 755
ModeFinal == 664

Times == 1..MaxTime
\* an output file name is the profile mean time truncated to the second
Names == 1..MaxTime

\* ------------------------------------------------------- pure functions
\* np.nanmean(profile_interval), as twice the mean so that it stays an
\* integer: the NaN entries are ignored, an all-NaN interval gives NaN
RECURSIVE SumValid(_)
SumValid(s) ==
    IF s = <<>> THEN 0
    ELSE (IF Head(s) = NaN THEN 0 ELSE Head(s)) + SumValid(Tail(s))

RECURSIVE CountValid(_)
CountValid(s) ==
    IF s = <<>> THEN 0
    ELSE (IF Head(s) = NaN THEN 0 ELSE 1) + CountValid(Tail(s))

nanmean2(interval) ==
    IF CountValid(interval) = 0 THEN NaN
    ELSE (2 * SumValid(interval)) \div CountValid(interval)

\* int(mean_profile_epoch): truncation of the (positive) mean
IntOfMean(m2) == m2 \div 2

\* pro_mean_dt.strftime('%Y%m%dT%H%M%SZ'): the sub-second part is dropped;
\* glider and filename_extension are fixed for the run
ProfileFilename(m2) == m2 \div 2

\* os.path.join(output_path, profile_filename + '.nc')
OutNcFile(m2) == ProfileFilename(m2)

\* ------------------------------------------------------------ input sets
\* profile intervals (p0, p1) as find_profiles returns them
Intervals ==
    {<<a, b>> : a \in Times, b \in Times} \cup {<<NaN, NaN>>, <<NaN, MaxTime>>}

WellFormed(iv) == iv[1] = NaN \/ iv[2] = NaN \/ iv[1] <= iv[2]

\* intervals are ordered by start time and do not overlap
Ordered(ps) ==
    \A i \in 1..Len(ps) : \A j \in 1..Len(ps) :
        (i < j /\ ps[i][1] # NaN /\ ps[j][1] # NaN) => ps[i][2] <= ps[j][1] /\ ps[i][1] < ps[j][1]

ProfileLists ==
    {ps \in UNION {[1..n -> Intervals] : n \in 0..MaxProfiles} :
        (\A i \in 1..Len(ps) : WellFormed(ps[i])) /\ Ordered(ps)}

SkipKinds == {"notfile", "empty", "yo_none", "degenerate", "nolat", "nolon"}

\* what reading one dba file yields
Sources ==
    [kind : SkipKinds, profiles : {<<>>}] \cup [kind : {"ok"}, profiles : ProfileLists]

NoSource == [kind |-> "none", profiles |-> <<>>]

\* the number of intervals of a list that get a staging file
RECURSIVE Staged(_)
Staged(ps) ==
    IF ps = << >> THEN 0
    ELSE (IF nanmean2(Head(ps)) = NaN THEN 0 ELSE 1) + Staged(Tail(ps))

\* ------------------------------------------------------------ files
NoFile == [by |-> 0, stage |-> "absent", pid |-> 0, whole |-> FALSE, mode |-> 0]
\* a file left in output_path by an earlier run
OldFile == [by |-> 0, stage |-> "finalized", pid |-> 0, whole |-> TRUE, mode |-> ModeFinal]
\* the empty file mkstemp creates for the n-th profile
EmptyTmp(n) == [by |-> n, stage |-> "empty", pid |-> 0, whole |-> TRUE, mode |-> ModeTmp]

Exists(f) == f.stage # "absent"

\* ------------------------------------------------------------ logging
Log(level, src, prof) == [level |-> level, src |-> src, prof |-> prof]

VARIABLES
    args,             \* [ndba, start_profile_id, clobber, debug]
    pc,               \* position in main
    ret,              \* return value of main, -1 while running
    fi,               \* index of dba_file in dba_files
    dba,              \* the parsed dba of the current file
    pi,               \* index of profile_interval in profile_times
    ncw,              \* the ProfileNetCDFWriter: [profile_id, stage]
    tmp_dir,          \* does the staging directory exist
    tmp_files,        \* staging files: ordinal of mkstemp -> file
    ntmp,             \* number of mkstemp calls of the run
    tmp_nc,           \* staging file of the current profile
    out_nc_file,      \* destination of the current profile
    nc_file,          \* result of finish_nc: TRUE when a path came back
    out_files,        \* output_path: name -> file
    output_nc_files,  \* list of created files
    li,               \* index in the final listing loop
    stdout,           \* lines written to standard output
    logged,           \* log records emitted by the last step
    event,            \* the skip or exit taken by the last step, else "none"
    placed,           \* names the run has moved a file to
    finalized,        \* profile ids recorded by successful finish_nc calls
    run,              \* 0: a single run; 1, 2: first and second run of a pair
    seen,             \* sources read by the first run of a pair
    faults,           \* has the first run of a pair met an I/O failure
    kept,             \* names a profile of the run was skipped for, as existing
    sensors,          \* dba['sensors']: the sensor names, one per column
    data,             \* dba['data']: rows of values, one value per column
    ts,               \* yo[:, 0]: the timestamp of every row
    p_inds,           \* rows of the current profile interval
    v,                \* index of the sensor in the insert loop
    inserted,         \* the insert_var_data calls made so far
    read              \* the frame as the reader returned it

vars == <<args, pc, ret, fi, dba, pi, ncw, tmp_dir, tmp_files, ntmp, tmp_nc,
          out_nc_file, nc_file, out_files, output_nc_files, li, stdout,
          logged, event, placed, finalized, run, seen, faults, kept,
          sensors, data, ts, p_inds, v, inserted, read>>

progVars == <<fi, dba, pi, ncw, tmp_nc, out_nc_file, nc_file, output_nc_files, li, stdout>>
diskVars == <<tmp_dir, tmp_files, ntmp, out_files>>
histVars == <<placed, finalized, run, seen, faults, kept>>
frameVars == <<sensors, data, ts, p_inds, v, inserted, read>>

\* ------------------------------------------------------------------ Init
\* ProfileNetCDFWriter(config_path, ..., profile_id=start_profile_id)
NewWriter(start) == [profile_id |-> start, stage |-> "closed"]

\* the values of the frame are left out of the walk through the files
NoFrame ==
    /\ sensors = << >>
    /\ data = << >>
    /\ ts = << >>
    /\ p_inds = << >>
    /\ v = 0
    /\ inserted = << >>
    /\ read = [sensors |-> << >>, data |-> << >>]

InitWith(n, r) ==
    /\ args \in [ndba : 0..n, start_profile_id : 0..MaxStartId,
                  clobber : BOOLEAN, debug : BOOLEAN]
    /\ pc = "start"
    /\ ret = 0 - 1
    /\ fi = 0
    /\ dba = NoSource
    /\ pi = 0
    /\ ncw = NewWriter(0)
    /\ tmp_dir = FALSE
    /\ tmp_files = << >>
    /\ ntmp = 0
    /\ tmp_nc = 0
    /\ out_nc_file = 0
    /\ nc_file = FALSE
    /\ out_files \in [Names -> {NoFile, OldFile}]
    /\ output_nc_files = << >>
    /\ li = 0
    /\ stdout = << >>
    /\ logged = << >>
    /\ event = "none"
    /\ placed = {}
    /\ finalized = << >>
    /\ run = r
    /\ seen = << >>
    /\ faults = FALSE
    /\ kept = {}
    /\ NoFrame

Init == InitWith(MaxFiles, 0)

\* one step of main: where it goes, what it returns, what it logs and
\* which skip or exit it takes
Step(p, r, lg, ev) ==
    pc' = p /\ ret' = r /\ logged' = lg /\ event' = ev /\ UNCHANGED frameVars

\* an I/O failure of the first run of a pair is remembered
Fault == faults' = (faults \/ run = 1)

\* ------------------------------------------------ lines 41-73: preamble
CheckConfigPath ==
    /\ pc = "start"
    /\ \E isdir \in BOOLEAN :
         IF isdir THEN Step("chk_output", ret, << >>, "none")
         ELSE Step("done", 1, <<Log("error", FALSE, FALSE)>>, "exit_config")
    /\ UNCHANGED <<args, progVars, diskVars, histVars>>

CheckOutputPath ==
    /\ pc = "chk_output"
    /\ \E isdir \in BOOLEAN :
         IF isdir THEN Step("chk_files", ret, << >>, "none")
         ELSE Step("done", 1, <<Log("error", FALSE, FALSE)>>, "exit_output")
    /\ UNCHANGED <<args, progVars, diskVars, histVars>>

CheckDbaFiles ==
    /\ pc = "chk_files"
    /\ IF args.ndba = 0 THEN Step("done", 1, <<Log("error", FALSE, FALSE)>>, "exit_nofiles")
       ELSE Step("writer", ret, << >>, "none")
    /\ UNCHANGED <<args, progVars, diskVars, histVars>>

\* the staging directory is made before the sensor definitions are validated
ValidateSensorsLate ==
    /\ pc = "writer"
    /\ ncw' = NewWriter(args.start_profile_id)
    /\ tmp_dir' = TRUE
    /\ \E ctd_valid \in BOOLEAN : \E ngdac_valid \in BOOLEAN :
         IF ctd_valid /\ ngdac_valid THEN Step("debug", ret, << >>, "none")
         ELSE Step("done", 1, <<Log("error", FALSE, FALSE)>>, "exit_sensors")
    /\ UNCHANGED <<args, fi, dba, pi, tmp_nc, out_nc_file, nc_file, output_nc_files,
                   li, stdout, tmp_files, ntmp, out_files, histVars>>

\* lines 58-69: the writer is built, then both validations must pass
ValidateSensors ==
    /\ pc = "writer"
    /\ ncw' = NewWriter(args.start_profile_id)
    /\ \E ctd_valid \in BOOLEAN : \E ngdac_valid \in BOOLEAN :
         IF ctd_valid /\ ngdac_valid THEN Step("debug", ret, << >>, "none")
         ELSE Step("done", 1, <<Log("error", FALSE, FALSE)>>, "exit_sensors")
    /\ UNCHANGED <<args, fi, dba, pi, tmp_nc, out_nc_file, nc_file, output_nc_files,
                   li, stdout, diskVars, histVars>>

\* lines 71-73: a dry run writes the writer's description and returns 0
Debug ==
    /\ pc = "debug"
    /\ args.debug
    /\ Step("done", 0, << >>, "exit_debug")
    /\ stdout' = Append(stdout, 0)
    /\ UNCHANGED <<args, fi, dba, pi, ncw, tmp_nc, out_nc_file, nc_file,
                   output_nc_files, li, diskVars, histVars>>

\* lines 76-82: the staging directory is made and the loop is entered
Mkdtemp ==
    /\ pc = "debug"
    /\ ~args.debug
    /\ tmp_dir' = TRUE
    /\ fi' = 1
    /\ Step("file", ret, << >>, "none")
    /\ UNCHANGED <<args, dba, pi, ncw, tmp_nc, out_nc_file, nc_file, output_nc_files,
                   li, stdout, tmp_files, ntmp, out_files, histVars>>

\* ------------------------------------------------ lines 82-123: sources
\* `continue` of the outer loop, and the end of its body
ContinueFile ==
    IF fi < args.ndba
    THEN pc' = "file" /\ fi' = fi + 1 /\ pi' = 0 /\ dba' = NoSource
    ELSE pc' = "rmtree" /\ fi' = fi /\ pi' = 0 /\ dba' = NoSource

\* `continue` of the inner loop, and the end of its body
ContinueProfile ==
    IF pi < Len(dba.profiles)
    THEN pc' = "profile" /\ pi' = pi + 1 /\ fi' = fi /\ dba' = dba
    ELSE ContinueFile

Emit(lg, ev) ==
    logged' = lg /\ event' = ev /\ ret' = ret /\ UNCHANGED frameVars

\* lines 84-91: what is at the path dba_file, and what parsing it gives;
\* the second run of a pair reads what the first run read
ReadDba ==
    /\ pc = "file"
    /\ \E s \in Sources :
         /\ ntmp + Staged(s.profiles) <= MaxStaged
         /\ run = 2 => s = seen[fi]
         /\ dba' = s
         /\ seen' = IF run = 1 THEN Append(seen, s) ELSE seen
    /\ Step("parsed", ret, << >>, "none")
    /\ UNCHANGED <<args, fi, pi, ncw, tmp_nc, out_nc_file, nc_file, output_nc_files,
                   li, stdout, diskVars, placed, finalized, run, faults, kept>>

\* `continue` for a source: only the loop position and the log change
SkipSource(lg, ev) ==
    /\ pc = "parsed"
    /\ ContinueFile
    /\ Emit(lg, ev)
    /\ UNCHANGED <<args, ncw, tmp_nc, out_nc_file, nc_file, output_nc_files,
                   li, stdout, diskVars, histVars>>

\* lines 84-86
InvalidDbaFile ==
    /\ dba.kind = "notfile"
    /\ SkipSource(<<Log("error", TRUE, FALSE)>>, "notfile")

\* lines 92-94
EmptyDba ==
    /\ dba.kind = "empty"
    /\ SkipSource(<<Log("warning", TRUE, FALSE)>>, "empty")

\* the record slice_sensor_data writes before it returns None
SliceSensorDataLog == <<Log("warning", TRUE, FALSE)>>

\* lines 97-99: main itself logs nothing here
YoNone ==
    /\ dba.kind = "yo_none"
    /\ SkipSource(SliceSensorDataLog, "yo_none")

\* lines 100-104: find_profiles raises ValueError; formatting the exception
\* with '{:s}' raises TypeError inside the handler, which nothing catches
FindProfilesError ==
    /\ pc = "parsed"
    /\ dba.kind = "degenerate"
    /\ Step("raised", ret, << >>, "none")
    /\ UNCHANGED <<args, progVars, diskVars, histVars>>

\* lines 106-108
NoProfiles ==
    /\ dba.kind = "ok"
    /\ dba.profiles = << >>
    /\ SkipSource(<<Log("info", TRUE, FALSE)>>, "noprofiles")

\* lines 116-119: the warning has no placeholder, the info names the file
NoLatitude ==
    /\ dba.kind = "nolat"
    /\ SkipSource(<<Log("warning", FALSE, FALSE), Log("info", TRUE, FALSE)>>, "nolat")

\* lines 120-123
NoLongitude ==
    /\ dba.kind = "nolon"
    /\ SkipSource(<<Log("warning", FALSE, FALSE), Log("info", TRUE, FALSE)>>, "nolon")

\* lines 124-146: the derived variables are added and the inner loop starts
DerivedVariables ==
    /\ pc = "parsed"
    /\ dba.kind = "ok"
    /\ dba.profiles # << >>
    /\ pi' = 1
    /\ Step("profile", ret, << >>, "none")
    /\ UNCHANGED <<args, fi, dba, ncw, tmp_nc, out_nc_file, nc_file, output_nc_files,
                   li, stdout, diskVars, histVars>>

\* ----------------------------------------------- lines 146-234: profiles
\* the identifier is left to the writer's counter whatever start_profile_id is
ProfileIdFromCounter(start, current, m2) == current

\* the identifier is taken from the mean time whatever start_profile_id is
ProfileIdFromMean(start, current, m2) == IntOfMean(m2)

\* lines 163-164: the identifier the writer holds for the profile
ProfileId(start, current, m2) == IF start < 1 THEN IntOfMean(m2) ELSE current

\* an existing output never stops the profile
SkipsExistingNever(exists, clobber) == FALSE

\* an existing output stops the profile even with clobber
SkipsExistingAlways(exists, clobber) == exists

\* lines 176-181: is the profile skipped for an existing output
SkipsExisting(exists, clobber) == exists /\ ~clobber

SetTmp(n, f) == tmp_files' = [tmp_files EXCEPT ![n] = f]
SetOut(name, f) == out_files' = [out_files EXCEPT ![name] = f]

\* lines 156-160
NanMeanSkip ==
    /\ pc = "profile"
    /\ nanmean2(dba.profiles[pi]) = NaN
    /\ ContinueProfile
    /\ Emit(<<Log("warning", FALSE, FALSE)>>, "nan")
    /\ UNCHANGED <<args, ncw, tmp_nc, out_nc_file, nc_file, output_nc_files,
                   li, stdout, diskVars, histVars>>

\* lines 161-175: identifier, file name, staging file, destination
Mkstemp ==
    /\ pc = "profile"
    /\ LET m2 == nanmean2(dba.profiles[pi]) IN
         /\ m2 # NaN
         /\ ncw' = [ncw EXCEPT !.profile_id = ProfileId(args.start_profile_id, @, m2)]
         /\ ntmp' = ntmp + 1
         /\ tmp_files' = Append(tmp_files, EmptyTmp(ntmp + 1))
         /\ tmp_nc' = ntmp + 1
         /\ out_nc_file' = OutNcFile(m2)
    /\ Step("exists", ret, << >>, "none")
    /\ UNCHANGED <<args, fi, dba, pi, nc_file, output_nc_files, li, stdout,
                   tmp_dir, out_files, histVars>>

\* lines 176-181, the branch that skips
SkipExisting ==
    /\ pc = "exists"
    /\ SkipsExisting(Exists(out_files[out_nc_file]), args.clobber)
    /\ ContinueProfile
    /\ Emit(<<Log("warning", FALSE, TRUE)>>, "exists")
    /\ kept' = kept \cup {out_nc_file}
    /\ UNCHANGED <<args, ncw, tmp_nc, out_nc_file, nc_file, output_nc_files,
                   li, stdout, diskVars, placed, finalized, run, seen, faults>>

\* lines 176-178, the branches that go on
KeepGoing ==
    /\ pc = "exists"
    /\ ~SkipsExisting(Exists(out_files[out_nc_file]), args.clobber)
    /\ Step("init", ret,
            IF Exists(out_files[out_nc_file]) THEN <<Log("info", FALSE, TRUE)>> ELSE << >>,
            "none")
    /\ UNCHANGED <<args, progVars, diskVars, histVars>>

\* lines 184-188: init_nc writes the schema into the staging file or raises
InitNc ==
    /\ pc = "init"
    /\ \E ok \in BOOLEAN :
         IF ok
         THEN /\ SetTmp(tmp_nc, [tmp_files[tmp_nc] EXCEPT !.stage = "initialized"])
              /\ ncw' = [ncw EXCEPT !.stage = "initialized"]
              /\ Step("open", ret, << >>, "none")
              /\ UNCHANGED <<fi, dba, pi, faults>>
         ELSE /\ ContinueProfile
              /\ Emit(<<Log("error", FALSE, TRUE)>>, "init")
              /\ Fault
              /\ UNCHANGED <<tmp_files, ncw>>
    /\ UNCHANGED <<args, tmp_nc, out_nc_file, nc_file, output_nc_files, li, stdout,
                   tmp_dir, ntmp, out_files, placed, finalized, run, seen, kept>>

\* lines 190-197: open_nc and update_history, or the staging file is unlinked;
\* when update_history is the call that raises, the writer stays open
OpenNc ==
    /\ pc = "open"
    /\ \E r \in {"ok", "open_raises", "history_raises"} :
         IF r = "ok"
         THEN /\ SetTmp(tmp_nc, [tmp_files[tmp_nc] EXCEPT !.stage = "opened"])
              /\ ncw' = [ncw EXCEPT !.stage = "opened"]
              /\ Step("populate", ret, << >>, "none")
              /\ UNCHANGED <<fi, dba, pi, faults>>
         ELSE /\ SetTmp(tmp_nc, NoFile)
              /\ ContinueProfile
              /\ Emit(<<Log("error", FALSE, TRUE)>>, "open")
              /\ Fault
              /\ ncw' = IF r = "history_raises" THEN [ncw EXCEPT !.stage = "opened"] ELSE ncw
    /\ UNCHANGED <<args, tmp_nc, out_nc_file, nc_file, output_nc_files, li, stdout,
                   tmp_dir, ntmp, out_files, placed, finalized, run, seen, kept>>

\* lines 199-221: trajectory, title, source file, sensor definitions,
\* container variables and the data of every sensor
Populate ==
    /\ pc = "populate"
    /\ SetTmp(tmp_nc, [tmp_files[tmp_nc] EXCEPT !.stage = "populated"])
    /\ ncw' = [ncw EXCEPT !.stage = "populated"]
    /\ Step("finish", ret, << >>, "none")
    /\ UNCHANGED <<args, fi, dba, pi, tmp_nc, out_nc_file, nc_file, output_nc_files,
                   li, stdout, tmp_dir, ntmp, out_files, histVars>>

\* finish_nc of the writer: the scalar profile variable takes the writer's
\* profile_id, the file is closed and the counter moves to the next integer
FinishedFile(f, w) == [f EXCEPT !.stage = "finalized", !.pid = w.profile_id]
FinishedWriter(w) == [profile_id |-> w.profile_id + 1, stage |-> "closed"]

\* line 224: finish_nc returns the path, or nothing when it could not finish
FinishNc ==
    /\ pc = "finish"
    /\ \E ok \in BOOLEAN :
         IF ok
         THEN /\ SetTmp(tmp_nc, FinishedFile(tmp_files[tmp_nc], ncw))
              /\ ncw' = FinishedWriter(ncw)
              /\ finalized' = Append(finalized, ncw.profile_id)
              /\ nc_file' = TRUE
              /\ UNCHANGED faults
         ELSE /\ ncw' = [ncw EXCEPT !.stage = "closed"]
              /\ nc_file' = FALSE
              /\ Fault
              /\ UNCHANGED <<tmp_files, finalized>>
    /\ Step("placing", ret, << >>, "none")
    /\ UNCHANGED <<args, fi, dba, pi, tmp_nc, out_nc_file, output_nc_files, li, stdout,
                   tmp_dir, ntmp, out_files, placed, run, seen, kept>>

\* the staging file is moved whatever finish_nc returned
MovesAlways(result) == TRUE

\* the staging file is moved when finish_nc returned nothing
MovesInverted(result) == ~result

\* line 226: is the staging file moved to its destination
Moves(result) == result

\* lines 226, 234: without a path from finish_nc nothing is moved
NotMoved ==
    /\ pc = "placing"
    /\ ~Moves(nc_file)
    /\ Step("append", ret, << >>, "none")
    /\ UNCHANGED <<args, progVars, diskVars, histVars>>

\* line 228, shutil.move when os.rename works: one atomic step
MoveRename ==
    /\ pc = "placing"
    /\ Moves(nc_file)
    /\ SetOut(out_nc_file, tmp_files[tmp_nc])
    /\ SetTmp(tmp_nc, NoFile)
    /\ placed' = placed \cup {out_nc_file}
    /\ Step("chmod", ret, << >>, "none")
    /\ UNCHANGED <<args, progVars, tmp_dir, ntmp, finalized, run, seen, faults, kept>>

\* line 228, shutil.move when os.rename raises OSError (the staging directory
\* is on another file system): copy2 opens and truncates the destination
MoveCopyOpen ==
    /\ pc = "placing"
    /\ Moves(nc_file)
    /\ SetOut(out_nc_file, [tmp_files[tmp_nc] EXCEPT !.whole = FALSE])
    /\ Step("copying", ret, << >>, "none")
    /\ UNCHANGED <<args, progVars, tmp_dir, tmp_files, ntmp, histVars>>

\* copy2 completes and the staging file is unlinked
MoveCopyDone ==
    /\ pc = "copying"
    /\ SetOut(out_nc_file, tmp_files[tmp_nc])
    /\ SetTmp(tmp_nc, NoFile)
    /\ placed' = placed \cup {out_nc_file}
    /\ Step("chmod", ret, << >>, "none")
    /\ UNCHANGED <<args, progVars, tmp_dir, ntmp, finalized, run, seen, faults, kept>>

\* lines 230-232: the move raises; copy2 could not open the destination,
\* broke off in the middle, or the staging file could not be unlinked
MoveError ==
    /\ \/ /\ pc = "placing"
          /\ Moves(nc_file)
          /\ UNCHANGED <<out_files, placed>>
       \/ /\ pc = "copying"
          /\ UNCHANGED <<out_files, placed>>
       \/ /\ pc = "copying"
          /\ SetOut(out_nc_file, tmp_files[tmp_nc])
          /\ placed' = placed \cup {out_nc_file}
    /\ ContinueProfile
    /\ Emit(<<Log("error", FALSE, TRUE)>>, "move")
    /\ Fault
    /\ UNCHANGED <<args, ncw, tmp_nc, out_nc_file, nc_file, output_nc_files, li, stdout,
                   tmp_dir, tmp_files, ntmp, finalized, run, seen, kept>>

\* lines 229-232: chmod 0o755 of the placed file, or it raises
Chmod ==
    /\ pc = "chmod"
    /\ \E ok \in BOOLEAN :
         IF ok
         THEN /\ SetOut(out_nc_file, [out_files[out_nc_file] EXCEPT !.mode = ModePlaced])
              /\ Step("append", ret, << >>, "none")
              /\ UNCHANGED <<fi, dba, pi, faults>>
         ELSE /\ ContinueProfile
              /\ Emit(<<Log("error", FALSE, TRUE)>>, "move")
              /\ Fault
              /\ UNCHANGED out_files
    /\ UNCHANGED <<args, ncw, tmp_nc, out_nc_file, nc_file, output_nc_files, li, stdout,
                   tmp_dir, tmp_files, ntmp, placed, finalized, run, seen, kept>>

\* line 234
AppendOutput ==
    /\ pc = "append"
    /\ output_nc_files' = Append(output_nc_files, out_nc_file)
    /\ ContinueProfile
    /\ Emit(<< >>, "none")
    /\ UNCHANGED <<args, ncw, tmp_nc, out_nc_file, nc_file, li, stdout, diskVars, histVars>>

\* ------------------------------------------- lines 238-251: the end of main
\* the failure of rmtree is logged and the listing goes on
RmtreeSwallowsError ==
    /\ pc = "rmtree"
    /\ \E ok \in BOOLEAN :
         /\ tmp_dir' = ~ok
         /\ tmp_files' = IF ok THEN [n \in DOMAIN tmp_files |-> NoFile] ELSE tmp_files
         /\ li' = 1
         /\ Step("listing", ret, IF ok THEN << >> ELSE <<Log("error", FALSE, FALSE)>>, "none")
    /\ UNCHANGED <<args, fi, dba, pi, ncw, tmp_nc, out_nc_file, nc_file, output_nc_files,
                   stdout, ntmp, out_files, histVars>>

\* lines 239-244
Rmtree ==
    /\ pc = "rmtree"
    /\ \E ok \in BOOLEAN :
         IF ok
         THEN /\ tmp_dir' = FALSE
              /\ tmp_files' = [n \in DOMAIN tmp_files |-> NoFile]
              /\ li' = 1
              /\ Step("listing", ret, << >>, "none")
         ELSE /\ Step("done", 1, <<Log("error", FALSE, FALSE)>>, "exit_rmtree")
              /\ UNCHANGED <<tmp_dir, tmp_files, li>>
    /\ UNCHANGED <<args, fi, dba, pi, ncw, tmp_nc, out_nc_file, nc_file, output_nc_files,
                   stdout, ntmp, out_files, histVars>>

\* the listed files are written to standard output with their bits unchanged
ListOutputKeepsMode ==
    /\ pc = "listing"
    /\ li <= Len(output_nc_files)
    /\ stdout' = Append(stdout, output_nc_files[li])
    /\ li' = li + 1
    /\ Step("listing", ret, << >>, "none")
    /\ UNCHANGED <<args, fi, dba, pi, ncw, tmp_nc, out_nc_file, nc_file, output_nc_files,
                   diskVars, histVars>>

\* lines 247-249: chmod 0o664 and one line of standard output per listed file
ListOutput ==
    /\ pc = "listing"
    /\ li <= Len(output_nc_files)
    /\ LET f == output_nc_files[li] IN
         IF Exists(out_files[f])
         THEN /\ SetOut(f, [out_files[f] EXCEPT !.mode = ModeFinal])
              /\ stdout' = Append(stdout, f)
              /\ li' = li + 1
              /\ Step("listing", ret, << >>, "none")
         ELSE /\ Step("raised", ret, << >>, "none")
              /\ UNCHANGED <<out_files, stdout, li>>
    /\ UNCHANGED <<args, fi, dba, pi, ncw, tmp_nc, out_nc_file, nc_file, output_nc_files,
                   tmp_dir, tmp_files, ntmp, histVars>>

\* line 251
Return ==
    /\ pc = "listing"
    /\ li > Len(output_nc_files)
    /\ Step("done", 0, << >>, "exit_ok")
    /\ UNCHANGED <<args, progVars, diskVars, histVars>>

\* the process is terminated from outside, at any step of main
Kill ==
    /\ pc \notin {"done", "raised", "killed"}
    /\ Step("killed", ret, << >>, "none")
    /\ UNCHANGED <<args, progVars, diskVars, histVars>>

Next ==
    \/ CheckConfigPath \/ CheckOutputPath \/ CheckDbaFiles \/ ValidateSensors
    \/ Debug \/ Mkdtemp
    \/ ReadDba \/ InvalidDbaFile \/ EmptyDba \/ YoNone \/ FindProfilesError
    \/ NoProfiles \/ NoLatitude \/ NoLongitude \/ DerivedVariables
    \/ NanMeanSkip \/ Mkstemp \/ SkipExisting \/ KeepGoing
    \/ InitNc \/ OpenNc \/ Populate \/ FinishNc
    \/ NotMoved \/ MoveRename \/ MoveCopyOpen \/ MoveCopyDone \/ MoveError
    \/ Chmod \/ AppendOutput \/ Rmtree \/ ListOutput \/ Return
    \/ Kill

Spec == Init /\ [][Next]_vars

\* ----------------------------------------------- the batch, run twice
\* main is called again with the same arguments over the same files and the
\* same output_path, after a first run that returned 0
Rerun ==
    /\ run = 1
    /\ pc = "done"
    /\ ret = 0
    /\ run' = 2
    /\ pc' = "start"
    /\ ret' = 0 - 1
    /\ fi' = 0 /\ pi' = 0 /\ dba' = NoSource
    /\ ncw' = NewWriter(0)
    /\ tmp_files' = << >> /\ ntmp' = 0 /\ tmp_nc' = 0
    /\ out_nc_file' = 0 /\ nc_file' = FALSE
    /\ output_nc_files' = << >> /\ li' = 0 /\ stdout' = << >>
    /\ logged' = << >> /\ event' = "none"
    /\ placed' = {} /\ finalized' = << >> /\ kept' = {}
    /\ UNCHANGED <<args, tmp_dir, out_files, seen, faults, frameVars>>

InitTwice == InitWith(TwiceMaxFiles, 1) /\ ~args.clobber

NextTwice == Next \/ Rerun

SpecTwice == InitTwice /\ [][NextTwice]_vars

\* ------------------------------------- lines 127-221: the working frame
\* What main does to the values of one parsed dba file: the derived columns
\* are added to the frame, every profile interval selects its rows and the
\* writer gets one array per sensor.  Positions count from 1 here.
MaxRows == 3
MaxSensors == 3

SensorNames == {"llat_time", "llat_depth", "sci_water_temp", "sci_water_cond"}

\* the sensors of a dba: each name once, the placeholder llat_depth among them
SensorLists ==
    {s \in UNION {[1..n -> SensorNames] : n \in 2..MaxSensors} :
        /\ \A i \in 1..Len(s) : \A j \in 1..Len(s) : i # j => s[i] # s[j]
        /\ \E i \in 1..Len(s) : s[i] = "llat_depth"}

\* the timestamps of the rows of a frame: never decreasing
Timestamps ==
    {t \in UNION {[1..n -> Times] : n \in 1..MaxRows} :
        \A i \in 1..Len(t) : \A j \in 1..Len(t) : i < j => t[i] <= t[j]}

\* the value the reader holds at a row for a sensor
Raw(name, r) == [sensor |-> name, row |-> r, calc |-> FALSE]
\* the value calculate_practical_salinity, calculate_density and
\* calculate_depth give for a row: the arrays are elementwise
Calc(name, r) == [sensor |-> name, row |-> r, calc |-> TRUE]

\* dba['data'] of the reader: row r holds one value per sensor, in order
FrameOf(names, n) == [r \in 1..n |-> [c \in 1..Len(names) |-> Raw(names[c], r)]]

\* np.append(dba['data'], np.expand_dims(column, axis=1), axis=1)
AppendColumn(d, name) == [r \in 1..Len(d) |-> Append(d[r], Calc(name, r))]

\* [s['sensor_name'] for s in dba['sensors']].index(name)
IndexOf(names, name) ==
    CHOOSE i \in 1..Len(names) :
        names[i] = name /\ \A j \in 1..(i - 1) : names[j] # name

\* the calculated depth is added as one more column
SetColumnAppends(d, zi, name) == AppendColumn(d, name)

\* dba['data'][:, zi] = column
SetColumn(d, zi, name) == [r \in 1..Len(d) |-> [d[r] EXCEPT ![zi] = Calc(name, r)]]

\* the upper end of the interval is left out
BetweenOpen(t, p0, p1) == t # NaN /\ p0 # NaN /\ p1 # NaN /\ t >= p0 /\ t < p1

\* np.logical_and(ts >= p0, ts <= p1) for one row: a comparison with nan is
\* false
Between(t, p0, p1) == t # NaN /\ p0 # NaN /\ p1 # NaN /\ t >= p0 /\ t <= p1

\* np.flatnonzero(mask): the positions where the mask holds, ascending
FlatNonZero(t, p0, p1) ==
    SelectSeq([i \in 1..Len(t) |-> i], LAMBDA i : Between(t[i], p0, p1))

\* dba['data'][p_inds, c]
Column(d, inds, c) == [k \in 1..Len(inds) |-> d[inds[k]][c]]

InitFrame ==
    /\ args = [ndba |-> 1, start_profile_id |-> 0, clobber |-> FALSE, debug |-> FALSE]
    /\ pc = "frame"
    /\ ret = 0 - 1
    /\ fi = 1
    /\ dba \in {s \in Sources : s.kind = "ok" /\ s.profiles # << >>}
    /\ pi = 0
    /\ ncw = NewWriter(0)
    /\ tmp_dir = TRUE
    /\ tmp_files = << >>
    /\ ntmp = 0
    /\ tmp_nc = 0
    /\ out_nc_file = 0
    /\ nc_file = FALSE
    /\ out_files = [n \in Names |-> NoFile]
    /\ output_nc_files = << >>
    /\ li = 0
    /\ stdout = << >>
    /\ logged = << >>
    /\ event = "none"
    /\ placed = {}
    /\ finalized = << >>
    /\ run = 0
    /\ seen = << >>
    /\ faults = FALSE
    /\ kept = {}
    /\ sensors \in SensorLists
    /\ ts \in Timestamps
    /\ data = FrameOf(sensors, Len(ts))
    /\ p_inds = << >>
    /\ v = 0
    /\ inserted = << >>
    /\ read = [sensors |-> sensors, data |-> data]

plainVars == <<args, ret, fi, dba, ncw, tmp_nc, out_nc_file, nc_file, output_nc_files,
               li, stdout, logged, event, diskVars, histVars>>

\* lines 127-141: salinity and density are appended, the depth replaces the
\* llat_depth column
AddDerived ==
    /\ pc = "frame"
    /\ sensors' = Append(Append(sensors, "salinity"), "density")
    /\ data' = SetColumn(AppendColumn(AppendColumn(data, "salinity"), "density"),
                         IndexOf(sensors', "llat_depth"), "llat_depth")
    /\ pi' = 1
    /\ pc' = "slice"
    /\ UNCHANGED <<plainVars, ts, p_inds, v, inserted, read>>

\* `continue` or the end of the body of the loop over profile_times
NextProfile ==
    IF pi < Len(dba.profiles) THEN pi' = pi + 1 /\ pc' = "slice"
    ELSE pi' = pi /\ pc' = "frame_done"

\* lines 146-160: the rows of the interval; a profile without a mean time
\* is left
SliceProfile ==
    /\ pc = "slice"
    /\ p_inds' = FlatNonZero(ts, dba.profiles[pi][1], dba.profiles[pi][2])
    /\ IF nanmean2(dba.profiles[pi]) = NaN
       THEN NextProfile /\ v' = v
       ELSE pi' = pi /\ pc' = "insert" /\ v' = 1
    /\ UNCHANGED <<plainVars, sensors, data, ts, inserted, read>>

\* lines 216-221: one insert_var_data call, for sensor v
InsertVarData ==
    /\ pc = "insert"
    /\ inserted' = Append(inserted, [profile |-> pi, var_name |-> sensors[v],
                                     var_data |-> Column(data, p_inds, v)])
    /\ IF v < Len(sensors)
       THEN v' = v + 1 /\ pi' = pi /\ pc' = "insert"
       ELSE v' = v /\ NextProfile
    /\ UNCHANGED <<plainVars, sensors, data, ts, p_inds, read>>

NextFrame == AddDerived \/ SliceProfile \/ InsertVarData

SpecFrame == InitFrame /\ [][NextFrame]_vars

\* ------------------------------------------------------------ properties
Range(q) == {q[i] : i \in 1..Len(q)}

SourceSkips == {"notfile", "empty", "yo_none", "degenerate", "nolat", "nolon"}
StagedSkips == {"exists", "init", "open", "move"}
ProfileSkips == {"nan"} \cup StagedSkips
WriterSteps == {"init", "open", "populate", "finish", "placing", "copying", "chmod", "append"}

\* C1: every file the run has put at a destination in output_path is one
\* whose finish_nc succeeded; files in any earlier writer stage are only
\* ever in the staging directory
C1_PlacedIsFinalized ==
    \A f \in Names :
        (Exists(out_files[f]) /\ out_files[f].by # 0) => out_files[f].stage = "finalized"

C1_Witness ==
    /\ pc = "chmod"
    /\ out_files[out_nc_file].by = tmp_nc
    /\ out_files[out_nc_file].stage = "finalized"

\* C2: when the process is terminated while a profile is written, no
\* partially written file is at a destination in output_path
C2_AtomicPlacement ==
    pc = "killed" => \A f \in Names : Exists(out_files[f]) => out_files[f].whole

\* C3: with start_profile_id >= 1 the k-th artifact finalized in the run
\* records the identifier start_profile_id + k - 1, whatever was skipped
C3_ConsecutiveIds ==
    args.start_profile_id >= 1 =>
        \A k \in 1..Len(finalized) : finalized[k] = args.start_profile_id + k - 1

C3_Witness ==
    /\ args.start_profile_id = 2
    /\ finalized = <<2, 3>>
    /\ ntmp = 3
    /\ pc = "placing"
    /\ nc_file

\* C4: a profile that is skipped leaves no staging file of its own behind,
\* has no artifact at its destination, and the loops go on
C4_ProfileSkipClean ==
    /\ event \in StagedSkips =>
          /\ ~Exists(tmp_files[tmp_nc])
          /\ out_files[out_nc_file].by # tmp_nc
    /\ event \in ProfileSkips => pc \in {"profile", "file", "rmtree"}

\* C5: a source error skips that source with a warning or an error in the
\* log, and main does not abort
C5_SourceErrorSkipped ==
    /\ dba.kind \in SourceSkips => pc # "raised"
    /\ event \in SourceSkips =>
          /\ pc \in {"file", "rmtree"}
          /\ \E i \in 1..Len(logged) : logged[i].level \in {"warning", "error"}

\* C6: every skip of a source or of a profile logs a record that names the
\* source, and for a profile one that names its interval or its file
C6_SkipsAreLogged ==
    /\ event \in SourceSkips \cup ProfileSkips =>
          \E i \in 1..Len(logged) : logged[i].src
    /\ event \in ProfileSkips =>
          \E i \in 1..Len(logged) : logged[i].prof

\* C7: when main returns 0, every artifact the run moved into output_path
\* is on standard output
C7_PlacedAreListed ==
    (pc = "done" /\ ret = 0) => placed \subseteq Range(stdout)

\* C8 as stated: in the second run over the same inputs without clobber
\* nothing is placed or listed, and every profile is skipped because its
\* output exists
C8_SecondRunAllExist ==
    run = 2 =>
        /\ placed = {}
        /\ output_nc_files = << >>
        /\ Range(stdout) \subseteq {0}
        /\ pc \notin WriterSteps
        /\ event \in ProfileSkips => event = "exists"

\* C8, amended: when the first run met no I/O failure, the second run over
\* the same inputs without clobber places and lists nothing, changes no
\* file of output_path, and every profile with a valid mean time is skipped
\* because its output exists (an interval whose mean time is NaN is skipped
\* for that in both runs)
C8_SecondRunIdempotent ==
    (run = 2 /\ ~faults) =>
        /\ placed = {}
        /\ output_nc_files = << >>
        /\ Range(stdout) \subseteq {0}
        /\ pc \notin WriterSteps
        /\ event \in ProfileSkips => event \in {"exists", "nan"}
        /\ pc = "exists" => Exists(out_files[out_nc_file])

C8_Witness ==
    /\ run = 2
    /\ ~faults
    /\ event = "exists"
    /\ out_files[out_nc_file].by # 0
    /\ out_files[out_nc_file].mode = ModeFinal

\* the content of a file, apart from its permission bits
Content(f) == [f EXCEPT !.mode = 0]

\* the skip for an existing output happens only without clobber and logs
\* warnings, no error
C9_SkipIsWarning ==
    event = "exists" =>
        /\ ~args.clobber
        /\ logged # << >>
        /\ \A i \in 1..Len(logged) : logged[i].level = "warning"

\* once the move is done the destination holds the artifact just finalized
C9_Replaced ==
    pc = "chmod" =>
        /\ out_files[out_nc_file].by = tmp_nc
        /\ out_files[out_nc_file].stage = "finalized"
        /\ out_files[out_nc_file].whole

\* without clobber no complete file of output_path is replaced or moved over
C9_NeverReplaced ==
    \A f \in Names :
        (~args.clobber /\ Exists(out_files[f]) /\ out_files[f].whole)
            => Content(out_files'[f]) = Content(out_files[f])

\* C9 as stated: without clobber a file that exists when a profile is
\* reached is left unchanged by the run, permission bits included, and the
\* profile is skipped with a warning; with clobber the file is replaced
C9_ExistingUntouched ==
    /\ [](C9_SkipIsWarning /\ C9_Replaced)
    /\ [][C9_NeverReplaced]_vars
    /\ [][\A f \in kept : ~args.clobber => out_files'[f] = out_files[f]]_vars

\* C9, amended: without clobber a file that exists when a profile is reached
\* is never replaced or moved over, the profile is skipped with a warning,
\* and the permission bits of the file change only when the run itself had
\* written the file and listed its path for an earlier profile: the final
\* listing sets 0o664 on it; a file from before the run is left as it was.
\* With clobber the file is replaced by the newly finalized artifact once
\* the move is done
C9_ExistingKept ==
    /\ [](C9_SkipIsWarning /\ C9_Replaced)
    /\ [][C9_NeverReplaced]_vars
    /\ [][\A f \in kept : ~args.clobber =>
             \/ out_files'[f] = out_files[f]
             \/ /\ f \in Range(output_nc_files)
                /\ out_files[f].by # 0
                /\ out_files'[f] = [out_files[f] EXCEPT !.mode = ModeFinal]]_vars

C9_Witness ==
    /\ ~args.clobber
    /\ pc = "done"
    /\ ret = 0
    /\ \E f \in kept : out_files[f] = OldFile
    /\ \E f \in kept \cap placed : out_files[f].mode = ModeFinal

\* C10: main returns 1 exactly for an invalid configuration directory, an
\* invalid output directory, an empty file list, failed validation of the
\* sensor definitions, or a staging directory that cannot be removed, and 0
\* in every other completed run, skips or not; after a failed removal of
\* the staging directory the artifacts moved into output_path are there
C10_ExitCodes ==
    pc = "done" =>
        /\ ret \in {0, 1}
        /\ ret = 1 <=> event \in {"exit_config", "exit_output", "exit_nofiles",
                                   "exit_sensors", "exit_rmtree"}
        /\ args.ndba = 0 => ret = 1
        /\ ret = 1 => \/ fi = 0 /\ ~tmp_dir /\ ntmp = 0 /\ placed = {}
                      \/ event = "exit_rmtree" /\ tmp_dir /\ fi = args.ndba
        /\ ret = 0 => /\ ~tmp_dir
                      /\ args.debug \/ fi = args.ndba
        /\ event = "exit_rmtree" =>
              \A f \in placed : Exists(out_files[f]) /\ out_files[f].by # 0

C10_Witness ==
    /\ pc = "done"
    /\ ret = 1
    /\ event = "exit_rmtree"
    /\ placed # {}
    /\ ntmp >= 2

\* C11: when the validation of the sensor definitions fails, main returns
\* before any file is touched: no staging directory, no dba read, no
\* staging file, nothing new in output_path
C11_AbortBeforeFiles ==
    event = "exit_sensors" =>
        /\ pc = "done" /\ ret = 1
        /\ ~tmp_dir /\ ntmp = 0 /\ tmp_files = << >>
        /\ fi = 0 /\ dba = NoSource
        /\ placed = {} /\ output_nc_files = << >> /\ stdout = << >>
        /\ \A f \in Names : out_files[f] \in {NoFile, OldFile}

C11_Witness ==
    /\ event = "exit_sensors"
    /\ args.ndba >= 1
    /\ ~args.debug
    /\ \E f \in Names : out_files[f] = OldFile

\* id is the mean of the valid entries of the interval, truncated
IsTruncatedMean(id, iv) ==
    \/ iv[1] # NaN /\ iv[2] # NaN /\ 2 * id <= iv[1] + iv[2] /\ iv[1] + iv[2] < 2 * id + 2
    \/ iv[1] # NaN /\ iv[2] = NaN /\ id = iv[1]
    \/ iv[1] = NaN /\ iv[2] # NaN /\ id = iv[2]

\* C12: with start_profile_id < 1 the writer holds, from the staging of a
\* profile up to its finish_nc, the truncated mean time of the profile's own
\* interval, and that is the identifier finish_nc records
C12_IdIsOwnMean ==
    args.start_profile_id < 1 =>
        /\ pc \in {"exists", "init", "open", "populate", "finish"} =>
              IsTruncatedMean(ncw.profile_id, dba.profiles[pi])
        /\ (pc = "placing" /\ nc_file) =>
              IsTruncatedMean(finalized[Len(finalized)], dba.profiles[pi])

C12_Witness ==
    /\ args.start_profile_id < 1
    /\ pc = "finish"
    /\ ntmp >= 2
    /\ Len(finalized) >= 1
    /\ ncw.profile_id # finalized[Len(finalized)] + 1
    /\ dba.profiles[pi] = <<1, 2>>

NoDup(q) == \A i \in 1..Len(q) : \A j \in 1..Len(q) : q[i] = q[j] => i = j

\* the run has returned 0 and every interval that was staged was finalized
\* and appended: no skip for an existing output and no failure of init_nc,
\* open_nc, finish_nc, the move or the chmod
Flawless ==
    /\ pc = "done" /\ ret = 0 /\ ~args.debug
    /\ Len(output_nc_files) = ntmp
    /\ Len(finalized) = ntmp

C14_ForwardPath ==
    /\ pc = "open" => ncw.stage = "initialized" /\ tmp_files[tmp_nc].stage = "initialized"
    /\ pc = "populate" => ncw.stage = "opened" /\ tmp_files[tmp_nc].stage = "opened"
    /\ pc = "finish" => ncw.stage = "populated" /\ tmp_files[tmp_nc].stage = "populated"
    /\ event = "exists" => tmp_files[tmp_nc].stage = "empty"
    /\ pc = "init" => ncw.stage \notin {"opened", "populated"}

\* C15: a path is appended to output_nc_files only for a profile whose
\* finish_nc returned a path and whose file the run has moved to that path
C15_ListedWerePlaced ==
    /\ pc = "append" => nc_file /\ out_files[out_nc_file].by = tmp_nc
    /\ Range(output_nc_files) \subseteq placed

\* the rows an inserted array was taken from, in the order of the array
RowsOf(e) == [k \in 1..Len(e.var_data) |-> e.var_data[k].row]

\* C16: every array given to insert_var_data holds, for its sensor, the
\* values of exactly the frame rows whose timestamp lies in the closed
\* interval of its profile, in frame order, and all arrays of one profile
\* are taken from the same rows
C16_RowsOfInterval ==
    \A n \in 1..Len(inserted) :
        LET e == inserted[n]
            p0 == dba.profiles[e.profile][1]
            p1 == dba.profiles[e.profile][2]
            rows == RowsOf(e)
            inside(r) == p0 # NaN /\ p1 # NaN /\ p0 <= ts[r] /\ ts[r] <= p1
        IN  /\ \A k \in 1..Len(rows) : rows[k] \in 1..Len(ts) /\ inside(rows[k])
            /\ \A k \in 1..(Len(rows) - 1) : rows[k] < rows[k + 1]
            /\ \A r \in 1..Len(ts) : inside(r) => \E k \in 1..Len(rows) : rows[k] = r
            /\ \E c \in 1..Len(sensors) :
                 /\ sensors[c] = e.var_name
                 /\ \A k \in 1..Len(rows) : e.var_data[k] = data[rows[k]][c]
            /\ \A m \in 1..Len(inserted) :
                 inserted[m].profile = e.profile => RowsOf(inserted[m]) = rows

C16_Witness ==
    /\ pc = "frame_done"
    /\ \E n \in 1..Len(inserted) :
         /\ Len(inserted[n].var_data) = 2
         /\ Len(ts) = 3
         /\ inserted[n].var_data[1].row = 2
    /\ \E n \in 1..Len(inserted) : inserted[n].profile = 2

\* C17: the derived-variable step adds the two columns salinity and density
\* at the end, keeps the rows, writes the depth over the llat_depth column
\* where it stood, and leaves sensor c describing column c, so that every
\* array given to insert_var_data holds values of the sensor it is named for
C17_ColumnsAligned ==
    pc \in {"slice", "insert", "frame_done"} =>
        LET n0 == Len(read.sensors)
        IN  /\ Len(sensors) = n0 + 2
            /\ sensors[n0 + 1] = "salinity"
            /\ sensors[n0 + 2] = "density"
            /\ \A c \in 1..n0 : sensors[c] = read.sensors[c]
            /\ Len(data) = Len(read.data)
            /\ \A r \in 1..Len(data) :
                 /\ Len(data[r]) = Len(sensors)
                 /\ \A c \in 1..Len(sensors) :
                      /\ data[r][c].sensor = sensors[c]
                      /\ data[r][c].row = r
                      /\ data[r][c].calc = (c > n0 \/ sensors[c] = "llat_depth")
            /\ \A n \in 1..Len(inserted) :
                 \A k \in 1..Len(inserted[n].var_data) :
                     inserted[n].var_data[k].sensor = inserted[n].var_name

C17_Witness ==
    /\ pc = "frame_done"
    /\ Len(read.sensors) = 3
    /\ read.sensors[2] = "llat_depth"
    /\ \E n \in 1..Len(inserted) :
         /\ inserted[n].var_name = "llat_depth"
         /\ Len(inserted[n].var_data) > 0
         /\ inserted[n].var_data[1].calc
    /\ \E n \in 1..Len(inserted) :
         inserted[n].var_name = "density" /\ Len(inserted[n].var_data) > 0

\* C18: when main returns 0 after making the staging directory, the staging
\* directory and every staging file of the run are gone, and every file
\* listed on standard output has the permission bits 0o664
C18_CleanAtReturn ==
    (pc = "done" /\ ret = 0 /\ ~args.debug) =>
        /\ ~tmp_dir
        /\ \A n \in 1..ntmp : ~Exists(tmp_files[n])
        /\ \A f \in Range(stdout) : out_files[f].mode = ModeFinal

C18_Witness ==
    /\ pc = "done" /\ ret = 0
    /\ ntmp = 3
    /\ kept # {}
    /\ faults = FALSE
    /\ Len(stdout) >= 1
    /\ Len(finalized) < ntmp - 1
====
